---- MODULE Spec2Model ----
(***************************************************************************)
(* Model of the localstack wrapper: the port-mapping resolver (hostConfig),*)
(* the environment composer (containerConfig) and the lifecycle manager    *)
(* (New, Start, Stop) driving one container of a container runtime.        *)
(*                                                                         *)
(* Go strings that the code builds or converts (strconv.Itoa, nat.NewPort, *)
(* strings.Join, strings.ToLower) are sequences of one-character strings,  *)
(* so that formatting and lower-casing are computed and not assumed.       *)
(***************************************************************************)
EXTENDS Integers, Sequences, FiniteSets, TLC

VARIABLES
    cfgs,          \* the selection list handed to New / to the resolver
    containerCfg,  \* New's local containerCfg (container.Config)
    hostCfg,       \* New's local (hostCfg, err) pair returned by hostConfig
    pc,            \* position of the single, blocking thread of control
    handle,        \* the *Localstack the caller holds, or NoHandle
    container,     \* state of the container inside the runtime
    ret,           \* what the last finished call returned to the caller
    trace          \* runtime calls and sleeps performed by the current call

vars == <<cfgs, containerCfg, hostCfg, pc, handle, container, ret, trace>>

(***************************************************************************)
(* Bounds of the model.                                                    *)
(***************************************************************************)
\* longest selection list given to the resolver and the composer
MaxLen == 3
\* longest selection list given to New in the lifecycle specification
MaxNewLen == 1

(***************************************************************************)
(* Strings as character sequences.                                         *)
(***************************************************************************)
Upper == <<"A","B","C","D","E","F","G","H","I","J","K","L","M",
           "N","O","P","Q","R","S","T","U","V","W","X","Y","Z">>
Lower == <<"a","b","c","d","e","f","g","h","i","j","k","l","m",
           "n","o","p","q","r","s","t","u","v","w","x","y","z">>
Digits == <<"0","1","2","3","4","5","6","7","8","9">>

\* strings.ToLower on one character
ToLowerChar(c) ==
    IF \E i \in DOMAIN Upper : Upper[i] = c
    THEN Lower[CHOOSE i \in DOMAIN Upper : Upper[i] = c]
    ELSE c

\* strings.ToLower
ToLower(s) == [i \in DOMAIN s |-> ToLowerChar(s[i])]

RECURSIVE Join(_, _)
\* strings.Join(names, sep)
Join(names, sep) ==
    IF Len(names) = 0 THEN << >>
    ELSE IF Len(names) = 1 THEN names[1]
    ELSE names[1] \o sep \o Join(Tail(names), sep)

RECURSIVE Itoa(_)
\* strconv.Itoa: decimal rendering of an int
Itoa(n) ==
    IF n < 0 THEN <<"-">> \o Itoa(-n)
    ELSE IF n < 10 THEN <<Digits[n + 1]>>
    ELSE Itoa(n \div 10) \o <<Digits[(n % 10) + 1]>>

(***************************************************************************)
(* Errors and nil.                                                         *)
(***************************************************************************)
\* the nil error
Nil == "nil"
\* a nil pointer
NilPtr == [nil |-> TRUE]
\* the nat.Port "nil" the mapping helpers return beside an error
NilPort == <<"n","i","l">>
ErrUnsupportedService == "UnsupportedServiceError"
ErrInvalidPort == "InvalidPortError"

(***************************************************************************)
(* Service registry (package services).                                    *)
(***************************************************************************)
S3 == "S3"
SNS == "SNS"
SQS == "SQS"
\* a Service value outside the registry
EC2 == "EC2"

\* default ports, as the session constructors hardwire them
S3Port == 4572
SNSPort == 4575
SQSPort == 4576

SupportedServices == <<S3, SNS, SQS>>

Services == {S3, SNS, SQS, EC2}

\* Service.String()
String(s) ==
    CASE s = S3  -> <<"S","3">>
      [] s = SNS -> <<"S","N","S">>
      [] s = SQS -> <<"S","Q","S">>
      [] OTHER   -> <<"E","C","2">>

\* services.GetDefaultPort: (port, error)
GetDefaultPort(s) ==
    CASE s = S3  -> [port |-> S3Port,  err |-> Nil]
      [] s = SNS -> [port |-> SNSPort, err |-> Nil]
      [] s = SQS -> [port |-> SQSPort, err |-> Nil]
      [] OTHER   -> [port |-> 0, err |-> ErrUnsupportedService]

\* services.ServiceConfig values the caller may build
Ports == {-1, 0, 1, 9000}
ServiceConfig == [Service : Services, Port : Ports]

ImageName == "docker.io/localstack/localstack"

(***************************************************************************)
(* nat.NewPort(proto, port): "<port>/<proto>", for a port in 0..65535.     *)
(***************************************************************************)
Tcp == <<"t","c","p">>

NewPort(proto, n) ==
    IF n \in 0..65535
    THEN [port |-> Itoa(n) \o <<"/">> \o proto, err |-> Nil]
    ELSE [port |-> << >>, err |-> ErrInvalidPort]

(***************************************************************************)
(* Port mapping resolver.                                                  *)
(***************************************************************************)
HostIP == "0.0.0.0"

\* getMappingForServiceConfig with the override test one off (Port < 0)
getMappingForServiceConfigOffByOne(cfg) ==
    LET d == GetDefaultPort(cfg.Service) IN
    IF d.err # Nil
    THEN [port |-> NilPort, binding |-> << >>, err |-> d.err]
    ELSE LET def == d.port
             port == IF cfg.Port < 0 THEN def ELSE cfg.Port
             internalPort == NewPort(Tcp, def)
         IN IF internalPort.err # Nil
            THEN [port |-> NilPort, binding |-> << >>, err |-> internalPort.err]
            ELSE [port |-> internalPort.port,
                  binding |-> <<[HostIP |-> HostIP, HostPort |-> Itoa(port)]>>,
                  err |-> Nil]

\* getMappingForServiceConfig binding the loopback address
getMappingForServiceConfigLoopback(cfg) ==
    LET d == GetDefaultPort(cfg.Service) IN
    IF d.err # Nil
    THEN [port |-> NilPort, binding |-> << >>, err |-> d.err]
    ELSE LET def == d.port
             port == IF cfg.Port < 1 THEN def ELSE cfg.Port
             internalPort == NewPort(Tcp, def)
         IN IF internalPort.err # Nil
            THEN [port |-> NilPort, binding |-> << >>, err |-> internalPort.err]
            ELSE [port |-> internalPort.port,
                  binding |-> <<[HostIP |-> "127.0.0.1", HostPort |-> Itoa(port)]>>,
                  err |-> Nil]

getMappingForServiceConfig(cfg) ==
    LET d == GetDefaultPort(cfg.Service) IN
    IF d.err # Nil
    THEN [port |-> NilPort, binding |-> << >>, err |-> d.err]
    ELSE LET def == d.port
             port == IF cfg.Port < 1 THEN def ELSE cfg.Port
             internalPort == NewPort(Tcp, def)
         IN IF internalPort.err # Nil
            THEN [port |-> NilPort, binding |-> << >>, err |-> internalPort.err]
            ELSE [port |-> internalPort.port,
                  binding |-> <<[HostIP |-> HostIP, HostPort |-> Itoa(port)]>>,
                  err |-> Nil]

getMappingForService(s) ==
    LET d == GetDefaultPort(s) IN
    IF d.err # Nil
    THEN [port |-> NilPort, binding |-> << >>, err |-> d.err]
    ELSE LET p == d.port
             internalPort == NewPort(Tcp, p)
         IN IF internalPort.err # Nil
            THEN [port |-> NilPort, binding |-> << >>, err |-> internalPort.err]
            ELSE [port |-> internalPort.port,
                  binding |-> <<[HostIP |-> HostIP, HostPort |-> Itoa(p)]>>,
                  err |-> Nil]

\* a map write that keeps an entry already there
MapPutIfAbsent(m, k, v) ==
    [x \in (DOMAIN m) \cup {k} |-> IF x \in DOMAIN m THEN m[x] ELSE v]

\* m[k] = v on a Go map
MapPut(m, k, v) == [x \in (DOMAIN m) \cup {k} |-> IF x = k THEN v ELSE m[x]]

EmptyMap == << >>

RECURSIVE rangeServiceConfigsPartial(_, _, _)
\* the loop returning the table built so far beside the error
rangeServiceConfigsPartial(serviceConfigs, i, m) ==
    IF i > Len(serviceConfigs)
    THEN [cfg |-> [PortBindings |-> m], err |-> Nil]
    ELSE LET r == getMappingForServiceConfig(serviceConfigs[i]) IN
         IF r.err # Nil
         THEN [cfg |-> [PortBindings |-> m], err |-> r.err]
         ELSE rangeServiceConfigsPartial(serviceConfigs, i + 1,
                                         MapPut(m, r.port, r.binding))

RECURSIVE rangeServiceConfigs(_, _, _)
\* the loop of hostConfig over the selection list, from index i with map m
rangeServiceConfigs(serviceConfigs, i, m) ==
    IF i > Len(serviceConfigs)
    THEN [cfg |-> [PortBindings |-> m], err |-> Nil]
    ELSE LET r == getMappingForServiceConfig(serviceConfigs[i]) IN
         IF r.err # Nil
         THEN [cfg |-> NilPtr, err |-> r.err]
         ELSE rangeServiceConfigs(serviceConfigs, i + 1, MapPut(m, r.port, r.binding))

RECURSIVE rangeSupportedServices(_, _)
\* the loop of hostConfig over services.SupportedServices
rangeSupportedServices(i, m) ==
    IF i > Len(SupportedServices)
    THEN [cfg |-> [PortBindings |-> m], err |-> Nil]
    ELSE LET r == getMappingForService(SupportedServices[i]) IN
         IF r.err # Nil
         THEN [cfg |-> NilPtr, err |-> r.err]
         ELSE rangeSupportedServices(i + 1, MapPut(m, r.port, r.binding))

\* hostConfig without the all-services branch
hostConfigNoFallback(serviceConfigs) ==
    rangeServiceConfigs(serviceConfigs, 1, EmptyMap)

hostConfig(serviceConfigs) ==
    IF Len(serviceConfigs) > 0
    THEN rangeServiceConfigs(serviceConfigs, 1, EmptyMap)
    ELSE rangeSupportedServices(1, EmptyMap)

(***************************************************************************)
(* Environment composer.                                                   *)
(***************************************************************************)
ServicesPrefix == <<"S","E","R","V","I","C","E","S","=">>
Comma == <<",">>

\* containerConfig without the lower-casing
containerConfigNoLower(img, serviceConfigs) ==
    IF Len(serviceConfigs) > 0
    THEN LET names == [i \in DOMAIN serviceConfigs |-> String(serviceConfigs[i].Service)]
         IN [Image |-> img,
             Env |-> <<ServicesPrefix \o Join(names, Comma)>>]
    ELSE [Image |-> img, Env |-> << >>]

containerConfig(img, serviceConfigs) ==
    IF Len(serviceConfigs) > 0
    THEN LET names == [i \in DOMAIN serviceConfigs |-> String(serviceConfigs[i].Service)]
         IN [Image |-> img,
             Env |-> <<ServicesPrefix \o ToLower(Join(names, Comma))>>]
    ELSE [Image |-> img, Env |-> << >>]

(***************************************************************************)
(* State shared by the specifications.                                     *)
(***************************************************************************)
NotComputed == [computed |-> FALSE]
NoHandle == NilPtr
NoRet == [op |-> "none"]

SelectionLists(n) == UNION {[1..k -> ServiceConfig] : k \in 0..n}

(***************************************************************************)
(* SpecResolve: the resolver and the composer applied to a selection list. *)
(***************************************************************************)
InitResolve ==
    /\ cfgs \in SelectionLists(MaxLen)
    /\ containerCfg = NotComputed
    /\ hostCfg = NotComputed
    /\ pc = "resolve"
    /\ handle = NoHandle
    /\ container = "uninitialized"
    /\ ret = NoRet
    /\ trace = << >>

ApplyContainerConfig ==
    /\ pc = "resolve"
    /\ containerCfg = NotComputed
    /\ containerCfg' = containerConfig(ImageName, cfgs)
    /\ UNCHANGED <<cfgs, hostCfg, pc, handle, container, ret, trace>>

ApplyHostConfig ==
    /\ pc = "resolve"
    /\ hostCfg = NotComputed
    /\ hostCfg' = hostConfig(cfgs)
    /\ UNCHANGED <<cfgs, containerCfg, pc, handle, container, ret, trace>>

NextResolve == ApplyContainerConfig \/ ApplyHostConfig

SpecResolve == InitResolve /\ [][NextResolve]_vars

(***************************************************************************)
(* The container runtime (docker client), as New, Start and Stop use it.   *)
(* Every call may fail; a failed call leaves the container as it was.      *)
(***************************************************************************)
ErrClient == "NewEnvClientError"
ErrImagePull == "ImagePullError"
ErrCopy == "CopyError"
ErrContainerCreate == "ContainerCreateError"
ErrContainerStart == "ContainerStartError"
ErrContainerStop == "ContainerStopError"

\* identifiers the runtime may give the created container
ContainerIDs == {"c1", "c2"}

\* the settle interval of Start and Stop, in seconds
SettleSeconds == 5

\* trace entries: a fallible call with its outcome, and a sleep
Call(name, ok) == [ev |-> name, ok |-> ok, secs |-> 0]
Sleep(secs) == [ev |-> "Sleep", ok |-> TRUE, secs |-> secs]

\* effect of a successful ContainerStart on the container
ContainerStart(c) == "running"

\* effect of a successful ContainerStop on the container
ContainerStop(c) == IF c = "running" THEN "stopped" ELSE c

\* a call returns err (and, for New, the handle h) to the caller
Return(op, h, err) ==
    /\ ret' = [op |-> op, handle |-> h, err |-> err]
    /\ pc' = "idle"

(***************************************************************************)
(* New: one step per fallible call it makes.                               *)
(***************************************************************************)
Init ==
    /\ cfgs = << >>
    /\ containerCfg = NotComputed
    /\ hostCfg = NotComputed
    /\ pc = "idle"
    /\ handle = NoHandle
    /\ container = "uninitialized"
    /\ ret = NoRet
    /\ trace = << >>

\* the caller calls New(cfgs...); it holds no environment yet
NewCall ==
    /\ pc = "idle"
    /\ handle = NoHandle
    /\ cfgs' \in SelectionLists(MaxNewLen)
    /\ containerCfg' = NotComputed
    /\ hostCfg' = NotComputed
    /\ pc' = "new_client"
    /\ trace' = << >>
    /\ ret' = NoRet
    /\ UNCHANGED <<handle, container>>

\* client.NewEnvClient()
NewEnvClient ==
    /\ pc = "new_client"
    /\ \E ok \in BOOLEAN :
        /\ trace' = Append(trace, Call("NewEnvClient", ok))
        /\ IF ok THEN pc' = "new_pull" /\ UNCHANGED ret
                 ELSE Return("New", NilPtr, ErrClient)
    /\ UNCHANGED <<cfgs, containerCfg, hostCfg, handle, container>>

PullOutcomes == {"client", "pull1", "pull2", "copy", "ok"}

\* the calls pullImage makes up to the one that fails
pullImageCalls(outcome) ==
    <<Call("NewEnvClient", outcome # "client")>>
    \o (IF outcome # "client"
        THEN <<Call("ImagePull", outcome # "pull1")>> ELSE << >>)
    \o (IF outcome \notin {"client", "pull1"}
        THEN <<Call("ImagePull", outcome # "pull2")>> ELSE << >>)
    \o (IF outcome \in {"copy", "ok"}
        THEN <<Call("Copy", outcome # "copy")>> ELSE << >>)

pullImageErr(outcome) ==
    CASE outcome = "client" -> ErrClient
      [] outcome \in {"pull1", "pull2"} -> ErrImagePull
      [] outcome = "copy" -> ErrCopy
      [] OTHER -> Nil

\* pullImage(dockerClient, ImageName)
PullImage ==
    /\ pc = "new_pull"
    /\ \E outcome \in PullOutcomes :
        /\ trace' = trace \o pullImageCalls(outcome)
        /\ IF pullImageErr(outcome) = Nil
           THEN pc' = "new_config" /\ UNCHANGED ret
           ELSE Return("New", NilPtr, pullImageErr(outcome))
    /\ UNCHANGED <<cfgs, containerCfg, hostCfg, handle, container>>

\* BuildConfig dropping hostConfig's error
BuildConfigIgnoreError ==
    /\ pc = "new_config"
    /\ containerCfg' = containerConfig(ImageName, cfgs)
    /\ hostCfg' = hostConfig(cfgs)
    /\ trace' = Append(trace, Call("hostConfig", hostCfg'.err = Nil))
    /\ pc' = "new_create"
    /\ UNCHANGED <<cfgs, handle, container, ret>>

\* containerCfg := containerConfig(ImageName, cfgs); hostCfg, err := hostConfig(cfgs)
BuildConfig ==
    /\ pc = "new_config"
    /\ containerCfg' = containerConfig(ImageName, cfgs)
    /\ hostCfg' = hostConfig(cfgs)
    /\ trace' = Append(trace, Call("hostConfig", hostCfg'.err = Nil))
    /\ IF hostCfg'.err # Nil
       THEN Return("New", NilPtr, hostCfg'.err)
       ELSE pc' = "new_create" /\ UNCHANGED ret
    /\ UNCHANGED <<cfgs, handle, container>>

\* ContainerCreate returning the handle beside the error
ContainerCreateKeepsHandle ==
    /\ pc = "new_create"
    /\ \E ok \in BOOLEAN, id \in ContainerIDs :
        /\ trace' = Append(trace, Call("ContainerCreate", ok))
        /\ LET l == [ContainerID |-> IF ok THEN id ELSE "",
                     containerConfig |-> containerCfg,
                     hostConfig |-> hostCfg.cfg]
           IN /\ container' = IF ok THEN "created" ELSE container
              /\ handle' = l
              /\ Return("New", l, IF ok THEN Nil ELSE ErrContainerCreate)
    /\ UNCHANGED <<cfgs, containerCfg, hostCfg>>

\* dockerClient.ContainerCreate(ctx, containerCfg, hostCfg, nil, "") and the return
ContainerCreate ==
    /\ pc = "new_create"
    /\ \E ok \in BOOLEAN, id \in ContainerIDs :
        /\ trace' = Append(trace, Call("ContainerCreate", ok))
        /\ IF ok
           THEN LET l == [ContainerID |-> id,
                          containerConfig |-> containerCfg,
                          hostConfig |-> hostCfg.cfg]
                IN /\ container' = "created"
                   /\ handle' = l
                   /\ Return("New", l, Nil)
           ELSE /\ UNCHANGED <<container, handle>>
                /\ Return("New", NilPtr, ErrContainerCreate)
    /\ UNCHANGED <<cfgs, containerCfg, hostCfg>>

(***************************************************************************)
(* Start and Stop on the handle New returned.                              *)
(***************************************************************************)
\* the caller calls l.Start()
StartCall ==
    /\ pc = "idle"
    /\ handle # NoHandle
    /\ pc' = "start_runtime"
    /\ trace' = << >>
    /\ ret' = NoRet
    /\ UNCHANGED <<cfgs, containerCfg, hostCfg, handle, container>>

\* l.dockerClient.ContainerStart(...) and the early return on its error
StartRuntime ==
    /\ pc = "start_runtime"
    /\ \E ok \in BOOLEAN :
        /\ trace' = Append(trace, Call("ContainerStart", ok))
        /\ IF ok
           THEN /\ container' = ContainerStart(container)
                /\ pc' = "start_sleep"
                /\ UNCHANGED ret
           ELSE /\ UNCHANGED container
                /\ Return("Start", NilPtr, ErrContainerStart)
    /\ UNCHANGED <<cfgs, containerCfg, hostCfg, handle>>

\* Start returning without the settle wait
StartSleepSkipped ==
    /\ pc = "start_sleep"
    /\ Return("Start", NilPtr, Nil)
    /\ UNCHANGED <<cfgs, containerCfg, hostCfg, handle, container, trace>>

\* time.Sleep(time.Second * 5); return nil
StartSleep ==
    /\ pc = "start_sleep"
    /\ trace' = Append(trace, Sleep(SettleSeconds))
    /\ Return("Start", NilPtr, Nil)
    /\ UNCHANGED <<cfgs, containerCfg, hostCfg, handle, container>>

\* the caller calls l.Stop()
StopCall ==
    /\ pc = "idle"
    /\ handle # NoHandle
    /\ pc' = "stop_runtime"
    /\ trace' = << >>
    /\ ret' = NoRet
    /\ UNCHANGED <<cfgs, containerCfg, hostCfg, handle, container>>

\* Stop trying the runtime call a second time when it fails
StopRuntimeRetry ==
    /\ pc = "stop_runtime"
    /\ \E ok \in BOOLEAN, again \in BOOLEAN :
        /\ trace' = IF ok THEN Append(trace, Call("ContainerStop", TRUE))
                    ELSE trace \o <<Call("ContainerStop", FALSE),
                                    Call("ContainerStop", again)>>
        /\ IF ok \/ again
           THEN /\ container' = ContainerStop(container)
                /\ pc' = "stop_sleep"
                /\ UNCHANGED ret
           ELSE /\ UNCHANGED container
                /\ Return("Stop", NilPtr, ErrContainerStop)
    /\ UNCHANGED <<cfgs, containerCfg, hostCfg, handle>>

\* l.dockerClient.ContainerStop(...) and the early return on its error
StopRuntime ==
    /\ pc = "stop_runtime"
    /\ \E ok \in BOOLEAN :
        /\ trace' = Append(trace, Call("ContainerStop", ok))
        /\ IF ok
           THEN /\ container' = ContainerStop(container)
                /\ pc' = "stop_sleep"
                /\ UNCHANGED ret
           ELSE /\ UNCHANGED container
                /\ Return("Stop", NilPtr, ErrContainerStop)
    /\ UNCHANGED <<cfgs, containerCfg, hostCfg, handle>>

\* time.Sleep(time.Second * 5); return nil
StopSleep ==
    /\ pc = "stop_sleep"
    /\ trace' = Append(trace, Sleep(SettleSeconds))
    /\ Return("Stop", NilPtr, Nil)
    /\ UNCHANGED <<cfgs, containerCfg, hostCfg, handle, container>>

Next ==
    \/ NewCall \/ NewEnvClient \/ PullImage \/ BuildConfig \/ ContainerCreate
    \/ StartCall \/ StartRuntime \/ StartSleep
    \/ StopCall \/ StopRuntime \/ StopSleep

Spec == Init /\ [][Next]_vars

(***************************************************************************)
(* Reading a result back: what a port key and a host port denote.          *)
(***************************************************************************)
IsDigit(c) == \E i \in DOMAIN Digits : Digits[i] = c
DigitValue(c) == (CHOOSE i \in DOMAIN Digits : Digits[i] = c) - 1
IsNumber(s) == Len(s) > 0 /\ \A i \in DOMAIN s : IsDigit(s[i])

RECURSIVE Atoi(_)
Atoi(s) ==
    IF Len(s) = 0 THEN 0
    ELSE Atoi(SubSeq(s, 1, Len(s) - 1)) * 10 + DigitValue(s[Len(s)])

\* a key "<number>/<proto>" with one slash
IsPortKey(k) ==
    /\ Cardinality({i \in DOMAIN k : k[i] = "/"}) = 1
    /\ IsNumber(SubSeq(k, 1, (CHOOSE i \in DOMAIN k : k[i] = "/") - 1))
PortNumber(k) == Atoi(SubSeq(k, 1, (CHOOSE i \in DOMAIN k : k[i] = "/") - 1))
PortProto(k) == SubSeq(k, (CHOOSE i \in DOMAIN k : k[i] = "/") + 1, Len(k))

\* the one binding list [{0.0.0.0, ext}]
IsBindingTo(b, ext) ==
    /\ Len(b) = 1
    /\ b[1].HostIP = "0.0.0.0"
    /\ IsNumber(b[1].HostPort)
    /\ Atoi(b[1].HostPort) = ext

\* k is the tcp port n
IsTcpPort(k, n) ==
    /\ IsPortKey(k)
    /\ PortNumber(k) = n
    /\ PortProto(k) = <<"t","c","p">>

Supported(s) == \E j \in DOMAIN SupportedServices : SupportedServices[j] = s
DefaultOf(s) == GetDefaultPort(s).port
AllSupported == \A i \in DOMAIN cfgs : Supported(cfgs[i].Service)
HostComputed == hostCfg # NotComputed
EnvComputed == containerCfg # NotComputed
Table == hostCfg.cfg.PortBindings
\* the external port a selection asks for
ExternalOf(sel) == IF sel.Port >= 1 THEN sel.Port ELSE DefaultOf(sel.Service)
\* selection i is the last one of its service
IsLast(i) == \A j \in DOMAIN cfgs : j > i => cfgs[j].Service # cfgs[i].Service

(***************************************************************************)
(* Claims on the resolver and the composer (SpecResolve).                  *)
(***************************************************************************)

\* C1: for a non-empty list of supported selections, every selection's
\* binding has the service's default tcp port as internal port, and as
\* external port the selection's Port when Port >= 1, the default otherwise;
\* the table hostConfig returns holds it (for a repeated service, the last).
C1_PortOverride ==
    (HostComputed /\ Len(cfgs) > 0 /\ AllSupported) =>
        /\ hostCfg.err = Nil
        /\ \A i \in DOMAIN cfgs :
            LET m == getMappingForServiceConfig(cfgs[i]) IN
            /\ m.err = Nil
            /\ IsTcpPort(m.port, DefaultOf(cfgs[i].Service))
            /\ IsBindingTo(m.binding, ExternalOf(cfgs[i]))
            /\ \E k \in DOMAIN Table :
                /\ IsTcpPort(k, DefaultOf(cfgs[i].Service))
                /\ IsLast(i) => IsBindingTo(Table[k], ExternalOf(cfgs[i]))

C1_Witness ==
    /\ HostComputed /\ Len(cfgs) = 3 /\ AllSupported
    /\ hostCfg.err = Nil
    /\ cfgs[1].Port = 9000 /\ cfgs[2].Port = 0 /\ cfgs[3].Port = -1
    /\ \E k \in DOMAIN Table :
        IsTcpPort(k, DefaultOf(cfgs[1].Service)) /\ IsBindingTo(Table[k], 9000)

NoOverrides == \A i \in DOMAIN cfgs : cfgs[i].Port < 1
DistinctServices ==
    \A i, j \in DOMAIN cfgs : i # j => cfgs[i].Service # cfgs[j].Service

\* C2: for a non-empty list of pairwise distinct supported services without
\* port overrides, the table has exactly one key per selection, each holding
\* exactly one binding, host 0.0.0.0, internal = external = the default.
C2_DefaultsTable ==
    (HostComputed /\ Len(cfgs) > 0 /\ AllSupported /\ DistinctServices /\ NoOverrides) =>
        /\ hostCfg.err = Nil
        /\ Cardinality(DOMAIN Table) = Len(cfgs)
        /\ \A i \in DOMAIN cfgs : \E k \in DOMAIN Table :
            /\ IsTcpPort(k, DefaultOf(cfgs[i].Service))
            /\ IsBindingTo(Table[k], DefaultOf(cfgs[i].Service))
        /\ \A k \in DOMAIN Table : \E i \in DOMAIN cfgs :
            IsTcpPort(k, DefaultOf(cfgs[i].Service))

C2_Witness ==
    /\ HostComputed /\ Len(cfgs) = 3 /\ AllSupported /\ DistinctServices /\ NoOverrides
    /\ hostCfg.err = Nil
    /\ Cardinality(DOMAIN Table) = 3

\* C3: for the empty list, the table has exactly one entry per service of
\* SupportedServices and no other, internal = external = the default.
C3_EmptyMeansAll ==
    (HostComputed /\ Len(cfgs) = 0) =>
        /\ hostCfg.err = Nil
        /\ Cardinality(DOMAIN Table) = Len(SupportedServices)
        /\ \A j \in DOMAIN SupportedServices : \E k \in DOMAIN Table :
            /\ IsTcpPort(k, DefaultOf(SupportedServices[j]))
            /\ IsBindingTo(Table[k], DefaultOf(SupportedServices[j]))
        /\ \A k \in DOMAIN Table : \E j \in DOMAIN SupportedServices :
            IsTcpPort(k, DefaultOf(SupportedServices[j]))

C3_Witness ==
    /\ HostComputed /\ cfgs = << >>
    /\ hostCfg.err = Nil
    /\ \E k \in DOMAIN Table : IsTcpPort(k, 4576) /\ IsBindingTo(Table[k], 4576)

\* the lower-case name of a service, written out
LowerName(s) ==
    CASE s = S3  -> <<"s","3">>
      [] s = SNS -> <<"s","n","s">>
      [] s = SQS -> <<"s","q","s">>
      [] OTHER   -> <<"e","c","2">>

RECURSIVE ExpectedNames(_)
\* the lower-case names of a selection list, comma-joined in input order
ExpectedNames(sels) ==
    IF Len(sels) = 1 THEN LowerName(sels[1].Service)
    ELSE ExpectedNames(SubSeq(sels, 1, Len(sels) - 1))
         \o <<",">> \o LowerName(sels[Len(sels)].Service)

\* C4: for a non-empty list the environment list is the single entry
\* SERVICES=<names>, the names lower-cased and comma-joined in input order;
\* for the empty list it is empty.
C4_ServicesEnv ==
    EnvComputed =>
        IF Len(cfgs) > 0
        THEN containerCfg.Env =
                <<(<<"S","E","R","V","I","C","E","S","=">> \o ExpectedNames(cfgs))>>
        ELSE containerCfg.Env = << >>

C4_Witness ==
    /\ EnvComputed /\ Len(cfgs) = 3
    /\ cfgs[1].Service = SQS /\ cfgs[2].Service = S3 /\ cfgs[3].Service = SNS
    /\ Len(containerCfg.Env) = 1

\* C5: when any selection of the list, wherever it stands, names a service
\* outside the supported set, hostConfig returns an error and no table.
C5_NoPartialTable ==
    (HostComputed /\ ~AllSupported) =>
        /\ hostCfg.err = ErrUnsupportedService
        /\ hostCfg.cfg = NilPtr

C5_Witness ==
    /\ HostComputed /\ Len(cfgs) = 3
    /\ Supported(cfgs[1].Service) /\ Supported(cfgs[2].Service)
    /\ ~Supported(cfgs[3].Service)
    /\ hostCfg.err # Nil

HasDuplicate ==
    \E i, j \in DOMAIN cfgs : i < j /\ cfgs[i].Service = cfgs[j].Service
\* the names of a comma-joined list
NameCount(str) == 1 + Cardinality({i \in DOMAIN str : str[i] = ","})

\* C10: when a supported service is named more than once, the table keeps
\* one entry per distinct service, holding the binding of the last selection
\* of that service, without error, while SERVICES has one name per selection.
C10_LastWriteWins ==
    (HostComputed /\ EnvComputed /\ AllSupported /\ HasDuplicate) =>
        /\ hostCfg.err = Nil
        /\ Cardinality(DOMAIN Table)
             = Cardinality({cfgs[i].Service : i \in DOMAIN cfgs})
        /\ \A i \in DOMAIN cfgs : IsLast(i) =>
            \E k \in DOMAIN Table :
                /\ IsTcpPort(k, DefaultOf(cfgs[i].Service))
                /\ IsBindingTo(Table[k], ExternalOf(cfgs[i]))
        /\ Len(containerCfg.Env) = 1
        /\ NameCount(containerCfg.Env[1]) = Len(cfgs)
        /\ Cardinality(DOMAIN Table) < NameCount(containerCfg.Env[1])

C10_Witness ==
    /\ HostComputed /\ EnvComputed /\ hostCfg.err = Nil
    /\ Len(cfgs) = 3
    /\ cfgs[1] = [Service |-> S3, Port |-> 9000]
    /\ cfgs[2].Service = SNS
    /\ cfgs[3] = [Service |-> S3, Port |-> 1]
    /\ Cardinality(DOMAIN Table) = 2
    /\ \E k \in DOMAIN Table : IsTcpPort(k, 4572) /\ IsBindingTo(Table[k], 1)

(***************************************************************************)
(* Claims on the lifecycle (Spec).                                         *)
(***************************************************************************)
TraceNames == [i \in DOMAIN trace |-> trace[i].ev]
AllOk == \A i \in DOMAIN trace : trace[i].ok
Performed(name) == \E i \in DOMAIN trace : trace[i].ev = name

\* C6: New returns a handle only when image pull, port resolution and
\* container creation all succeeded, in that order; when a step fails New
\* returns the error and no handle, and no later step is performed.
C6_NewAllOrNothing ==
    ret.op = "New" =>
        /\ ret.handle # NilPtr <=> ret.err = Nil
        /\ ret.err = Nil =>
            /\ TraceNames = <<"NewEnvClient", "NewEnvClient", "ImagePull", "ImagePull",
                              "Copy", "hostConfig", "ContainerCreate">>
            /\ AllOk
            /\ handle = ret.handle
            /\ container = "created"
        /\ ret.err # Nil =>
            /\ handle = NoHandle
            /\ container = "uninitialized"
            /\ ~trace[Len(trace)].ok
            /\ \A i \in 1..(Len(trace) - 1) : trace[i].ok
            /\ ret.err \in {ErrClient, ErrImagePull, ErrCopy} =>
                ~Performed("hostConfig") /\ ~Performed("ContainerCreate")
            /\ ret.err = ErrUnsupportedService =>
                /\ TraceNames[Len(trace)] = "hostConfig"
                /\ ~Performed("ContainerCreate")

C6_Witness ==
    /\ ret.op = "New"
    /\ ret.err = ErrUnsupportedService
    /\ Performed("ImagePull")
    /\ ~Performed("ContainerCreate")
    /\ handle = NoHandle

\* the steps on which Start and Stop issue their runtime call
StartIssued == pc = "start_runtime" /\ pc' # "start_runtime"
StopIssued == pc = "stop_runtime" /\ pc' # "stop_runtime"

\* the environment moves along Uninitialized -> Created -> Running <-> Stopped
OnLifecycleEdge ==
    \/ container' = container
    \/ <<container, container'>> \in
         {<<"uninitialized", "created">>, <<"created", "running">>,
          <<"running", "stopped">>, <<"stopped", "running">>}

\* C7 as stated: the environment only moves along Uninitialized -> Created
\* -> Running <-> Stopped, a runtime start call is issued only when it is
\* Created or Stopped, and a runtime stop call only when it is Running.
C7_AsStated ==
    [][/\ OnLifecycleEdge
       /\ StartIssued => container \in {"created", "stopped"}
       /\ StopIssued => container = "running"]_vars

\* C7, amended: the environment only moves along Uninitialized -> Created ->
\* Running <-> Stopped; Start and Stop do not look at the state: each issues
\* its runtime call in whichever of Created, Running or Stopped the
\* environment is, and never while it is Uninitialized.
C7_Lifecycle ==
    [][/\ OnLifecycleEdge
       /\ (StartIssued \/ StopIssued) =>
            /\ handle # NoHandle
            /\ container \in {"created", "running", "stopped"}]_vars

C7_Witness ==
    /\ pc = "start_sleep"
    /\ container = "running"
    /\ Len(trace) = 1 /\ trace[1] = Call("ContainerStart", TRUE)
    /\ handle # NoHandle

\* C8 as stated: every return from Start or Stop comes after exactly one
\* runtime call followed by the settle wait.
C8_AsStated ==
    /\ ret.op = "Start" => TraceNames = <<"ContainerStart", "Sleep">>
    /\ ret.op = "Stop" => TraceNames = <<"ContainerStop", "Sleep">>

\* C8, amended: every Start and Stop issues its runtime call exactly once;
\* when the call succeeds the 5 second settle wait follows before the
\* return, when it fails the error is returned at once, without the wait.
C8_SettleAfterSuccess ==
    /\ ret.op = "Start" =>
        IF ret.err = Nil
        THEN trace = <<Call("ContainerStart", TRUE), Sleep(5)>>
        ELSE trace = <<Call("ContainerStart", FALSE)>>
    /\ ret.op = "Stop" =>
        IF ret.err = Nil
        THEN trace = <<Call("ContainerStop", TRUE), Sleep(5)>>
        ELSE trace = <<Call("ContainerStop", FALSE)>>

C8_Witness ==
    /\ ret.op = "Start" /\ ret.err = Nil
    /\ trace = <<Call("ContainerStart", TRUE), Sleep(5)>>
    /\ container = "running"

\* the steps on which Start and Stop return the runtime's error
StartFailed == pc = "start_runtime" /\ pc' = "idle"
StopFailed == pc = "stop_runtime" /\ pc' = "idle"

\* C9: a failing Start or Stop returns the runtime's error after a single
\* runtime call and leaves the environment state unchanged; the handle New
\* returned (identifier, container config, host config) never changes.
C9_HandleFrame ==
    [][/\ handle # NoHandle => handle' = handle
       /\ StartFailed =>
            /\ ret'.err = ErrContainerStart
            /\ container' = container
            /\ trace' = <<Call("ContainerStart", FALSE)>>
       /\ StopFailed =>
            /\ ret'.err = ErrContainerStop
            /\ container' = container
            /\ trace' = <<Call("ContainerStop", FALSE)>>]_vars

C9_Witness ==
    /\ ret.op = "Stop" /\ ret.err = ErrContainerStop
    /\ container = "running"
    /\ handle # NoHandle
    /\ handle.hostConfig # NilPtr

====
